---- MODULE Spec2Model ----
(***************************************************************************)
(* Model of the search orchestration of web-information-acquisition-mcp:   *)
(* ItemSearchService.searchItems (searchService.ts), the ItemRepository    *)
(* it merges against (repository.ts) and the LlmService calls it awaits    *)
(* (llmService.ts), with the save, category and summary tools and the      *)
(* methods of the repository they use.                                     *)
(*                                                                         *)
(* JavaScript strings are sequences of one-character strings; a property   *)
(* that may be missing (undefined) is an option: <<>> is undefined and     *)
(* <<s>> is the string s.  Node runs one handler at a time, so an action   *)
(* is the code between two awaits of one call.                             *)
(***************************************************************************)
EXTENDS Integers, Sequences, FiniteSets, TLC

\* ------------------------------------------------------------------ bounds
NumCalls == 3      \* search calls of the admission specification
MaxSaves == 1      \* manual save_item requests
MaxTime == 1       \* clock readings after the first
MaxStore == 2      \* records of the db directory before the first request

\* ------------------------------------------------------- program constants
MAX_SIMULTANEOUS_SEARCHES == 2
SEARCH_TIMEOUT == 90000

\* ----------------------------------------------------------------- strings
Undefined == <<>>
Some(s) == <<s>>
IsDefined(o) == o # Undefined
Val(o) == o[1]

\* a string used as a condition: undefined and "" are falsy
Truthy(o) == IsDefined(o) /\ Val(o) # <<>>

LowerChar(ch) ==
  CASE ch = "G" -> "g"
    [] ch = "A" -> "a"
    [] ch = "X" -> "x"
    [] ch = "F" -> "f"
    [] ch = "I" -> "i"
    [] ch = "T" -> "t"
    [] ch = "H" -> "h"
    [] ch = "R" -> "r"
    [] ch = "B" -> "b"
    [] ch = "Y" -> "y"
    [] OTHER -> ch

toLowerCase(s) == [i \in 1..Len(s) |-> LowerChar(s[i])]

includes(hay, needle) ==
  \E i \in 0..(Len(hay) - Len(needle)) :
    SubSeq(hay, i + 1, i + Len(needle)) = needle

RECURSIVE Digits(_)
Digits(n) ==
  IF n < 10 THEN <<CASE n = 0 -> "0" [] n = 1 -> "1" [] n = 2 -> "2"
                     [] n = 3 -> "3" [] n = 4 -> "4" [] n = 5 -> "5"
                     [] n = 6 -> "6" [] n = 7 -> "7" [] n = 8 -> "8"
                     [] OTHER -> "9">>
  ELSE Digits(n \div 10) \o Digits(n % 10)

\* the message of the Error the overall timer rejects with; a character
\* outside ASCII is named by its code point
TimeoutMessage ==
  <<"u691c", "u7d22", "u51e6", "u7406", "u5168", "u4f53", "u304c">> \o Digits(SEARCH_TIMEOUT)
    \o <<"m", "s", "u3092", "u8d85", "u904e", "u3057", "u307e", "u3057", "u305f">>

\* the message of the TypeError of undefined.toLowerCase()
TypeErrorMessage ==
  <<"C", "a", "n", "n", "o", "t", " ", "r", "e", "a", "d", " ",
    "p", "r", "o", "p", "e", "r", "t", "i", "e", "s", " ", "o", "f", " ",
    "u", "n", "d", "e", "f", "i", "n", "e", "d">>

TimeoutWord == <<"u30bf", "u30a4", "u30e0", "u30a2", "u30a6", "u30c8">>

\* ---------------------------------------------------- results of a function
\* a call either returns a value or throws an Error with a message
Return(v) == [thrown |-> FALSE, val |-> v, message |-> <<>>]
Throw(m) == [thrown |-> TRUE, val |-> <<>>, message |-> m]

\* promise.catch(() => [])
CatchEmpty(r) == IF r.thrown THEN Return(<<>>) ELSE r

\* ------------------------------------------------------------ ItemRepository
\* The store is the sequence of the record files of the db directory in the
\* order readdirSync lists them; the file of a record is named by its id.
NoId == <<>>
Null == <<>>

\* getAllItems: one unreadable file makes the map throw, the catch returns []
getAllItems(files, readOk) == IF readOk THEN files ELSE <<>>

\* getItem: null when the file does not exist, null when reading it throws
getItem(files, id, readOk) ==
  LET hits == {i \in 1..Len(files) : files[i].id = id}
  IN IF hits = {} THEN Null
     ELSE IF ~readOk THEN Null
     ELSE <<files[CHOOSE i \in hits : TRUE]>>

\* variant: every write creates a new file
saveItemAlwaysAppends(files, item, pos, writeOk) ==
  IF ~writeOk THEN [files |-> files, thrown |-> TRUE]
  ELSE [files |-> SubSeq(files, 1, pos - 1) \o <<item>>
                    \o SubSeq(files, pos, Len(files)),
        thrown |-> FALSE]

\* saveItem: writeFileSync of <id>.json; a new file appears at position pos of
\* the listing, an existing file is overwritten where it is
saveItem(files, item, pos, writeOk) ==
  LET hits == {i \in 1..Len(files) : files[i].id = item.id}
  IN IF ~writeOk THEN [files |-> files, thrown |-> TRUE]
     ELSE IF hits # {}
       THEN [files |-> [i \in 1..Len(files) |->
                          IF i \in hits THEN item ELSE files[i]],
             thrown |-> FALSE]
       ELSE [files |-> SubSeq(files, 1, pos - 1) \o <<item>>
                         \o SubSeq(files, pos, Len(files)),
             thrown |-> FALSE]

\* variant: updatedItem without the id override
updateItemKeepsNewId(files, id, newData, time, fault) ==
  LET existingItem == getItem(files, id, fault # "get")
      updatedItem == [newData EXCEPT !.createdAt = Val(existingItem).createdAt,
                                     !.updatedAt = Some(time)]
      saved == saveItem(files, updatedItem, 1, fault # "write")
  IN IF existingItem = Null THEN [files |-> files, item |-> Null]
     ELSE IF saved.thrown THEN [files |-> files, item |-> Null]
     ELSE [files |-> saved.files, item |-> <<updatedItem>>]

\* updateItem(id, newData): the stored id and createdAt are kept, every other
\* property is newData's, updatedAt is stamped; null when the record is not
\* found or when reading or writing throws
updateItem(files, id, newData, time, fault) ==
  LET existingItem == getItem(files, id, fault # "get")
      updatedItem == [newData EXCEPT !.id = id,
                                     !.createdAt = Val(existingItem).createdAt,
                                     !.updatedAt = Some(time)]
      saved == saveItem(files, updatedItem, 1, fault # "write")
  IN IF existingItem = Null THEN [files |-> files, item |-> Null]
     ELSE IF saved.thrown THEN [files |-> files, item |-> Null]
     ELSE [files |-> saved.files, item |-> <<updatedItem>>]

\* Array.prototype.find over outcomes "true" / "false" / "throw" of the
\* predicate: the index of the first element whose outcome is not "false"
FirstDecided(outcomes) ==
  LET hits == {i \in 1..Len(outcomes) : outcomes[i] # "false"}
  IN IF hits = {} THEN 0 ELSE CHOOSE i \in hits : \A j \in hits : i <= j

\* variant: the names compared as they are
ExactNameOutcomeCaseSensitive(existing, item) ==
  IF ~IsDefined(existing.name) THEN "throw"
  ELSE IF IsDefined(item.name) /\ Val(existing.name) = Val(item.name)
    THEN "true" ELSE "false"

\* existing.name.toLowerCase() === item.name?.toLowerCase()
ExactNameOutcome(existing, item) ==
  IF ~IsDefined(existing.name) THEN "throw"
  ELSE IF IsDefined(item.name)
          /\ toLowerCase(Val(existing.name)) = toLowerCase(Val(item.name))
    THEN "true" ELSE "false"

\* variant: the stored name looked for inside the candidate's name
SimilarNameOutcomeReversed(existing, item) ==
  IF ~Truthy(item.name) THEN "false"
  ELSE IF ~IsDefined(existing.name) THEN "throw"
  ELSE IF ~includes(toLowerCase(Val(item.name)),
                    toLowerCase(Val(existing.name))) THEN "false"
  ELSE IF Truthy(item.organization) /\ ~IsDefined(existing.organization)
    THEN "throw"
  ELSE IF Truthy(item.organization)
          /\ includes(toLowerCase(Val(existing.organization)),
                      toLowerCase(Val(item.organization))) THEN "true"
  ELSE IF Truthy(item.url) /\ Truthy(existing.url)
          /\ Val(existing.url) = Val(item.url) THEN "true"
  ELSE "false"

\* the predicate of the second find (name part, then organization, then url)
SimilarNameOutcome(existing, item) ==
  IF ~Truthy(item.name) THEN "false"
  ELSE IF ~IsDefined(existing.name) THEN "throw"
  ELSE IF ~includes(toLowerCase(Val(existing.name)),
                    toLowerCase(Val(item.name))) THEN "false"
  ELSE IF Truthy(item.organization) /\ ~IsDefined(existing.organization)
    THEN "throw"
  ELSE IF Truthy(item.organization)
          /\ includes(toLowerCase(Val(existing.organization)),
                      toLowerCase(Val(item.organization))) THEN "true"
  ELSE IF Truthy(item.url) /\ Truthy(existing.url)
          /\ Val(existing.url) = Val(item.url) THEN "true"
  ELSE "false"

\* variant: one pass, the first record that matches exactly or similarly
findDuplicateItemSinglePass(files, item, readOk) ==
  LET allItems == getAllItems(files, readOk)
      either == [i \in 1..Len(allItems) |->
                   IF ExactNameOutcome(allItems[i], item) = "false"
                     THEN SimilarNameOutcome(allItems[i], item)
                     ELSE ExactNameOutcome(allItems[i], item)]
      e == FirstDecided(either)
  IN IF e > 0
       THEN (IF either[e] = "throw" THEN NoId ELSE allItems[e].id)
       ELSE NoId

\* findDuplicateItem: the id of the first exact name match, else of the first
\* similar match, else null; null as well when anything throws
findDuplicateItem(files, item, readOk) ==
  LET allItems == getAllItems(files, readOk)
      exact == [i \in 1..Len(allItems) |-> ExactNameOutcome(allItems[i], item)]
      similar == [i \in 1..Len(allItems) |->
                    SimilarNameOutcome(allItems[i], item)]
      e == FirstDecided(exact)
      s == FirstDecided(similar)
  IN IF e > 0
       THEN (IF exact[e] = "throw" THEN NoId ELSE allItems[e].id)
       ELSE IF s > 0
         THEN (IF similar[s] = "throw" THEN NoId ELSE allItems[s].id)
         ELSE NoId

\* item.category.toLowerCase().includes(category.toLowerCase())
CategoryMatches(item, category) ==
  includes(toLowerCase(Val(item.category)), toLowerCase(category))

\* getItemsByCategory: the whole listing for a falsy category, else the
\* records whose category holds the filter, case ignored; [] when the filter
\* throws on a record without category
getItemsByCategory(files, category, readOk) ==
  LET allItems == getAllItems(files, readOk)
  IN IF ~Truthy(category) THEN allItems
     ELSE IF \E i \in 1..Len(allItems) : ~IsDefined(allItems[i].category)
       THEN <<>>
     ELSE SelectSeq(allItems, LAMBDA it : CategoryMatches(it, Val(category)))

\* ---------------------------------------------------------------- LlmService
\* The outcome of model.generateContent: it throws, its text holds no JSON
\* array (or one that does not parse), or it holds the array items.
GeminiSource == <<"Gemini API">>
ManualSource == <<"Manual Save">>
WebSearchMark == " (Web u691c u7d22)"
UpdatedMark == " (u66f4 u65b0)"
WebWord == <<"W", "e", "b">>

\* variant: the outer catch of searchWithAI rethrows
searchWithAIRethrows(outcome, c, k, time) ==
  IF outcome.kind = "throw" THEN Throw(<<"f", "a", "i", "l">>)
  ELSE IF outcome.kind = "nojson" THEN Return(<<>>)
  ELSE Return([i \in 1..Len(outcome.items) |->
         [id |-> <<"item", c, k, i>>,
          name |-> outcome.items[i].name,
          organization |-> outcome.items[i].organization,
          url |-> outcome.items[i].url,
          category |-> outcome.items[i].category,
          source |-> <<"Gemini API">>,
          createdAt |-> time,
          updatedAt |-> Undefined]])

\* searchWithAI: every failure is caught and becomes []; an item gets a fresh
\* id (uuid: here the call, the request of the call and the position)
searchWithAI(outcome, c, k, time) ==
  IF outcome.kind = "throw" THEN Return(<<>>)
  ELSE IF outcome.kind = "nojson" THEN Return(<<>>)
  ELSE Return([i \in 1..Len(outcome.items) |->
         [id |-> <<"item", c, k, i>>,
          name |-> outcome.items[i].name,
          organization |-> outcome.items[i].organization,
          url |-> outcome.items[i].url,
          category |-> outcome.items[i].category,
          source |-> GeminiSource,
          createdAt |-> time,
          updatedAt |-> Undefined]])

\* generateWebItems: the same shape, ids prefixed web_, source the
\* organization (or "Web") followed by the web search mark
generateWebItems(outcome, c, time) ==
  IF outcome.kind = "throw" THEN Return(<<>>)
  ELSE IF outcome.kind = "nojson" THEN Return(<<>>)
  ELSE Return([i \in 1..Len(outcome.items) |->
         [id |-> <<"web", c, 1, i>>,
          name |-> outcome.items[i].name,
          organization |-> outcome.items[i].organization,
          url |-> outcome.items[i].url,
          category |-> outcome.items[i].category,
          source |-> (IF Truthy(outcome.items[i].organization)
                        THEN Val(outcome.items[i].organization)
                        ELSE WebWord) \o <<WebSearchMark>>,
          createdAt |-> time,
          updatedAt |-> Undefined]])

\* the text generateMarkdownSummary returns for no items, after the heading
NoInformationMessage ==
  <<"u60c5", "u5831", "u304c", "u898b", "u3064", "u304b", "u308a", "u307e",
    "u305b", "u3093", "u3067", "u3057", "u305f", "u3002">>

\* the head of the message of the Error generateMarkdownSummary throws
MarkdownFailedMessage ==
  <<"u30de", "u30fc", "u30af", "u30c0", "u30a6", "u30f3", "u751f", "u6210",
    "u306b", "u5931", "u6557", "u3057", "u307e", "u3057", "u305f", ":", " ">>

\* variant: no test of items.length
generateMarkdownSummaryAlwaysAsks(title, items, outcome) ==
  IF outcome.kind = "throw"
    THEN [result |-> Throw(MarkdownFailedMessage \o outcome.message),
          asked |-> TRUE]
  ELSE [result |-> Return(outcome.text), asked |-> TRUE]

\* generateMarkdownSummary: for no items the heading and the fixed message,
\* the model not asked; else the text of model.generateContent, a failure of
\* it rethrown as an Error
generateMarkdownSummary(title, items, outcome) ==
  IF Len(items) = 0
    THEN [result |-> Return(<<"#", " ">> \o title \o <<"\n", "\n">>
                              \o NoInformationMessage),
          asked |-> FALSE]
  ELSE IF outcome.kind = "throw"
    THEN [result |-> Throw(MarkdownFailedMessage \o outcome.message),
          asked |-> TRUE]
  ELSE [result |-> Return(outcome.text), asked |-> TRUE]

\* ---------------------------------------------------------- SiteDataProvider
\* A site is a WebsiteConfig; the file system a call of
\* searchWebsiteWithSitemcp meets is env: tmpExists (the site's temporary
\* directory exists), mkdirOk (mkdirSync succeeds where it is called), home1,
\* home2 and alt (the pages of the three possible cache directories,
\* Undefined for a directory that does not exist), listOk (readdirSync of the
\* cache directory succeeds) and sitemcp (what the sub-process would do:
\* kind "exit" or "timeout", and wrote, the pages it leaves in alt).  A page
\* is "bad" (its file does not parse), "skip" (no title, no content or the
\* query not in it), "null" (extractInfoFromPage returns null) or "item".
SITEMCP_TIMEOUT == 60000
USE_FALLBACK_FOR_FAILED_SITES == TRUE
PER_SITE_LIMIT == 3
WebExtractMark == " (Web u62bd u51fa)"
SimpleInfoMark == " (u7c21 u6613 u60c5 u5831)"

\* generateSimpleWebItems: the one placeholder record of a site
generateSimpleWebItems(website, time) ==
  <<[id |-> <<"fallback", website.name, time, 0>>,
     name |-> Some(website.name \o <<"u306e u60c5 u5831 (query)">>),
     organization |-> Some(IF website.description # <<>>
                             THEN website.description ELSE website.name),
     url |-> Some(website.url),
     category |->
       Some(<<"u672a u5206 u985e (u30d5 u30a9 u30fc u30eb u30d0 u30c3 u30af)">>),
     source |-> website.name \o <<SimpleInfoMark>>,
     createdAt |-> time,
     updatedAt |-> Undefined]>>

\* extractInfoFromPage for the page at position p: the record of an "item"
\* page, null for every other answer of the Generative source
extractInfoFromPage(page, website, p, time) ==
  IF page # "item" THEN Null
  ELSE <<[id |-> <<"site", website.name, p, 0>>,
          name |-> Some(<<"P">>),
          organization |-> Some(website.name),
          url |-> Some(website.url),
          category |-> Some(<<"I", "T">>),
          source |-> website.name \o <<WebExtractMark>>,
          createdAt |-> time,
          updatedAt |-> Undefined]>>

\* the loop of processWebsiteCache from page p on: a page that does not
\* parse is caught and skipped, a page without the query is skipped, an
\* extracted record is pushed and the loop stops at the limit per site
RECURSIVE ProcessPages(_, _, _, _, _)
ProcessPages(pages, p, items, website, time) ==
  IF p > Len(pages) THEN items
  ELSE IF pages[p] \in {"bad", "skip"}
    THEN ProcessPages(pages, p + 1, items, website, time)
  ELSE LET itemInfo == extractInfoFromPage(pages[p], website, p, time)
       IN IF itemInfo = Null
            THEN ProcessPages(pages, p + 1, items, website, time)
          ELSE IF Len(items) + 1 >= PER_SITE_LIMIT
            THEN Append(items, Val(itemInfo))
          ELSE ProcessPages(pages, p + 1, Append(items, Val(itemInfo)),
                            website, time)

\* processWebsiteCache: [] when the listing throws or lists no page
processWebsiteCache(pages, listOk, website, time) ==
  IF ~listOk THEN <<>>
  ELSE IF Len(pages) = 0 THEN <<>>
  ELSE ProcessPages(pages, 1, <<>>, website, time)

\* the first of the possible cache paths that exists, 0 for none
FirstExisting(paths) ==
  LET hits == {i \in 1..Len(paths) : IsDefined(paths[i])}
  IN IF hits = {} THEN 0 ELSE CHOOSE i \in hits : \A j \in hits : i <= j

\* what searchWebsiteWithSitemcp returns when it has no cache directory
NoCacheResult(website, time) ==
  IF USE_FALLBACK_FOR_FAILED_SITES
    THEN generateSimpleWebItems(website, time) ELSE <<>>

\* variant: the cache directories looked up before the alternative cache
\* directory is created
PossibleCachePathsBeforeMkdir(env) == <<env.home1, env.home2, env.alt>>

\* possibleCachePaths as the lookup finds them: the two cache directories
\* under the home directory and the alternative cache directory, which
\* exists by then because mkdirSync has created it where it was missing
PossibleCachePaths(env) ==
  <<env.home1, env.home2,
    IF IsDefined(env.alt) THEN env.alt ELSE Some(<<>>)>>

\* searchWebsiteWithSitemcp: result is what it returns, sitemcpRuns the
\* number of runs of the sub-process, killed whether the sub-process was
\* killed, deadline the delay of the timer a run is raced against
searchWebsiteWithSitemcp(website, env, time) ==
  LET mkdirThrows == (~env.tmpExists \/ ~IsDefined(env.alt)) /\ ~env.mkdirOk
      possibleCachePaths == PossibleCachePaths(env)
      found == FirstExisting(possibleCachePaths)
      \* the run of the sub-process: on "exit" the paths are looked up again
      afterRun == <<env.home1, env.home2, env.sitemcp.wrote>>
      foundAfter == IF env.sitemcp.kind = "timeout" THEN 0
                    ELSE FirstExisting(afterRun)
  IN IF mkdirThrows
       THEN [result |-> Return(NoCacheResult(website, time)),
             sitemcpRuns |-> 0, killed |-> FALSE, deadline |-> 0]
     ELSE IF found # 0
       THEN [result |-> Return(processWebsiteCache(
                                 Val(possibleCachePaths[found]), env.listOk,
                                 website, time)),
             sitemcpRuns |-> 0, killed |-> FALSE, deadline |-> 0]
     ELSE IF foundAfter # 0
       THEN [result |-> Return(processWebsiteCache(
                                 Val(afterRun[foundAfter]), env.listOk,
                                 website, time)),
             sitemcpRuns |-> 1, killed |-> FALSE,
             deadline |-> SITEMCP_TIMEOUT]
     ELSE [result |-> Return(NoCacheResult(website, time)),
           sitemcpRuns |-> 1, killed |-> env.sitemcp.kind = "timeout",
           deadline |-> SITEMCP_TIMEOUT]

\* --------------------------------------------------------- ItemSearchService
\* variant: a site list with one enabled site
targetWebsitesConfigured ==
  <<[name |-> <<"A">>, url |-> <<"a">>, enabled |-> TRUE,
     description |-> <<"d">>]>>

\* the site list of searchFromWeb
targetWebsites == <<>>

\* targetWebsites.filter((site) => site.enabled)
EnabledWebsites(websites) == SelectSeq(websites, LAMBDA site : site.enabled)

\* settledResults.forEach: the records of every fulfilled site, in the order
\* of the sites
RECURSIVE CollectSettled(_, _)
CollectSettled(settled, i) ==
  IF i > Len(settled) THEN <<>>
  ELSE (IF settled[i].thrown THEN <<>> ELSE settled[i].val)
         \o CollectSettled(settled, i + 1)

\* variant: a web-oriented answer without records ends the web-gathering
SearchFromWebOverStopsWithoutDirect(websites, outcome, envs, c, time) ==
  LET direct == generateWebItems(outcome, c, time)
      enabledWebsites == EnabledWebsites(websites)
      settled == [i \in 1..Len(enabledWebsites) |->
                    CatchEmpty(searchWebsiteWithSitemcp(
                                 enabledWebsites[i], envs[i], time).result)]
  IN IF direct.thrown \/ direct.val = <<>> THEN Return(<<>>)
     ELSE Return(direct.val \o CollectSettled(settled, 1))

\* the body of searchFromWeb for a site list: the web-oriented answer, a
\* failure of it caught, followed by the records of the enabled sites, the
\* failure of a site caught; envs[i] is what the i-th enabled site meets
SearchFromWebOver(websites, outcome, envs, c, time) ==
  LET direct == generateWebItems(outcome, c, time)
      enabledWebsites == EnabledWebsites(websites)
      settled == [i \in 1..Len(enabledWebsites) |->
                    CatchEmpty(searchWebsiteWithSitemcp(
                                 enabledWebsites[i], envs[i], time).result)]
  IN Return((IF direct.thrown THEN <<>> ELSE direct.val)
              \o CollectSettled(settled, 1))

\* searchFromWeb: that body for the site list it declares
searchFromWeb(outcome, envs, c, time) ==
  SearchFromWebOver(targetWebsites, outcome, envs, c, time)

\* the source label of an update: webItem.source, or "Web", then the mark
UpdatedSource(webItem) ==
  (IF webItem.source # <<>> THEN webItem.source ELSE WebWord)
    \o <<UpdatedMark>>

\* variant: the updated record always pushed
ReplaceOrAppendAlwaysPushes(res, updated) == Append(res, updated)

\* results[existingIndex] = updated, or results.push(updated)
ReplaceOrAppend(res, updated) ==
  LET hits == {i \in 1..Len(res) : res[i].id = updated.id}
      existingIndex == IF hits = {} THEN 0
                       ELSE CHOOSE i \in hits : \A j \in hits : i <= j
  IN IF existingIndex > 0
       THEN [res EXCEPT ![existingIndex] = updated]
       ELSE Append(res, updated)

\* variant: a duplicate overwritten with saveItem under the stored id
MergeOneOverwrites(st, webItem, time, fault) ==
  LET duplicateId == findDuplicateItem(st.files, webItem, fault # "list")
      written == [webItem EXCEPT !.id = duplicateId,
                                 !.source = UpdatedSource(webItem)]
      saved == saveItem(st.files, written, 1, fault # "write")
  IN IF duplicateId # NoId
       THEN (IF ~saved.thrown
               THEN [files |-> saved.files,
                     results |-> ReplaceOrAppend(st.results, written),
                     log |-> Append(st.log, [dup |-> duplicateId,
                                             updated |-> TRUE])]
               ELSE [st EXCEPT !.log = Append(@, [dup |-> duplicateId,
                                                  updated |-> FALSE])])
       ELSE [files |-> st.files, results |-> Append(st.results, webItem),
             log |-> Append(st.log, [dup |-> NoId, updated |-> FALSE])]

\* the body of webResults.forEach for one web item; st.log records, per web
\* item, the id findDuplicateItem returned and whether updateItem returned a
\* record
MergeOne(st, webItem, time, fault) ==
  LET duplicateId == findDuplicateItem(st.files, webItem, fault # "list")
      upd == updateItem(st.files, duplicateId,
                        [webItem EXCEPT !.source = UpdatedSource(webItem)],
                        time, fault)
  IN IF duplicateId # NoId
       THEN (IF upd.item # Null
               THEN [files |-> upd.files,
                     results |-> ReplaceOrAppend(st.results, Val(upd.item)),
                     log |-> Append(st.log, [dup |-> duplicateId,
                                             updated |-> TRUE])]
               ELSE [st EXCEPT !.log = Append(@, [dup |-> duplicateId,
                                                  updated |-> FALSE])])
       ELSE [files |-> st.files, results |-> Append(st.results, webItem),
             log |-> Append(st.log, [dup |-> NoId, updated |-> FALSE])]

\* webResults.forEach(...): the merge of the web items from position i on
RECURSIVE Merge(_, _, _, _, _)
Merge(st, webResults, i, time, faults) ==
  IF i > Len(webResults) THEN st
  ELSE Merge(MergeOne(st, webResults[i], time, faults[i]),
             webResults, i + 1, time, faults)

\* variant: no category filter
FilterByCategoryOff(res, category) == Return(res)

\* the category filter; item.category.toLowerCase() throws on an item
\* without a category
FilterByCategory(res, category) ==
  IF ~Truthy(category) THEN Return(res)
  ELSE IF \E i \in 1..Len(res) : ~IsDefined(res[i].category)
    THEN Throw(TypeErrorMessage)
  ELSE Return(SelectSeq(res, LAMBDA it : CategoryMatches(it, Val(category))))

\* variant: the ceiling compared with > instead of >=
AtCeilingOffByOne(n) == n > MAX_SIMULTANEOUS_SEARCHES

\* the admission test
AtCeiling(n) == n >= MAX_SIMULTANEOUS_SEARCHES

\* variant: the catch block without the test of the message
CatchReturnsPartialAnyError(message, res) == Len(res) > 0

\* the catch block returns the partial results only for an error whose
\* message holds the timeout word and when results is not empty
CatchReturnsPartial(message, res) ==
  includes(message, TimeoutWord) /\ Len(res) > 0

\* the message of the Error repository.saveItem throws (its head)
SaveFailedMessage ==
  <<"u4fdd", "u5b58", "u306b", "u5931", "u6557", "u3057", "u307e", "u3057",
    "u305f">>

\* variant: a save that looks for a duplicate and overwrites it
ItemSearchService_saveItemDedups(files, itemData, n, time, pos, writeOk) ==
  LET dup == findDuplicateItem(files, itemData, TRUE)
      itemInfo == [id |-> IF dup # NoId THEN dup ELSE <<"item", 0, n, 0>>,
                   name |-> itemData.name,
                   organization |-> itemData.organization,
                   url |-> itemData.url,
                   category |-> itemData.category,
                   source |-> ManualSource,
                   createdAt |-> time,
                   updatedAt |-> Undefined]
      saved == saveItem(files, itemInfo, pos, writeOk)
  IN IF saved.thrown
       THEN [files |-> files, result |-> Throw(SaveFailedMessage)]
       ELSE [files |-> saved.files, result |-> Return(itemInfo)]

\* ItemSearchService.saveItem: a fresh id (uuid: here the number n of the
\* save), the manual source label, createdAt stamped, no duplicate check;
\* the Error of repository.saveItem passes through
ItemSearchService_saveItem(files, itemData, n, time, pos, writeOk) ==
  LET itemInfo == [id |-> <<"item", 0, n, 0>>,
                   name |-> itemData.name,
                   organization |-> itemData.organization,
                   url |-> itemData.url,
                   category |-> itemData.category,
                   source |-> ManualSource,
                   createdAt |-> time,
                   updatedAt |-> Undefined]
      saved == saveItem(files, itemInfo, pos, writeOk)
  IN IF saved.thrown
       THEN [files |-> files, result |-> Throw(SaveFailedMessage)]
       ELSE [files |-> saved.files, result |-> Return(itemInfo)]

\* handleSaveItem: the envelope of a save
handleSaveItem(r) ==
  IF r.thrown THEN [isError |-> TRUE, data |-> <<>>, error |-> r.message]
  ELSE [isError |-> FALSE, data |-> r.val, error |-> <<>>]

\* handleGetItemsByCategory: the envelope of the repository's answer
handleGetItemsByCategory(files, category, readOk) ==
  [isError |-> FALSE, data |-> getItemsByCategory(files, category, readOk),
   error |-> <<>>]

\* the records handleGenerateMarkdownSummary selects
SummaryItems(files, category, readOk) ==
  IF Truthy(category) THEN getItemsByCategory(files, category, readOk)
  ELSE getAllItems(files, readOk)

\* variant: the catch block answers with an empty text
handleGenerateMarkdownSummarySwallows(r) ==
  IF r.thrown THEN [isError |-> FALSE, data |-> <<>>, error |-> <<>>]
  ELSE [isError |-> FALSE, data |-> r.val, error |-> <<>>]

\* handleGenerateMarkdownSummary: the envelope of the summary
handleGenerateMarkdownSummary(r) ==
  IF r.thrown THEN [isError |-> TRUE, data |-> <<>>, error |-> r.message]
  ELSE [isError |-> FALSE, data |-> r.val, error |-> <<>>]

\* variant: every envelope answered with 200
HttpStatusAlwaysOk(response) == 200

\* the status of the HTTP answer of a handler's envelope
HttpStatus(response) == IF response.isError THEN 500 ELSE 200

\* createExpressHandler: the status the route set, or 500 when the route
\* handler throws
createExpressHandler(r) == IF r.thrown THEN 500 ELSE r.val

\* itemSchema.safeParse: every required property of the body is a string
itemSchemaValid(body) ==
  /\ IsDefined(body.name) /\ IsDefined(body.organization)
  /\ IsDefined(body.url) /\ IsDefined(body.category)

\* handleSearchItems: the envelope of a search
handleSearchItems(r) ==
  IF r.thrown THEN [isError |-> TRUE, data |-> <<>>, error |-> r.message]
  ELSE [isError |-> FALSE, data |-> r.val, error |-> <<>>]

\* --------------------------------------------------------------------- state
VARIABLES
  activeSearchRequests,  \* the module-level counter of admitted searches
  files,                 \* the record files of the db directory
  now,                   \* the clock new Date() reads
  saves,                 \* manual saves made so far
  calls,                 \* per search call: position, closure and history
  last                   \* the latest store or summary request and its answer

vars == <<activeSearchRequests, files, now, saves, calls, last>>

AllCalls == 1..NumCalls

\* A call's record.  pc is the position of searchItems: "idle" (not called),
\* "degraded" (awaiting searchWithAI at the ceiling), "race" (awaiting
\* Promise.race), "fallback" (awaiting searchWithAI in the catch block),
\* "done" (returned).  work is the position of searchPromise: "none", "ai"
\* (awaiting searchWithAI), "web" (awaiting searchFromWeb), "settled".
\* results is the closure variable; ret and response are what searchItems
\* and handleSearchItems gave back.  The other fields record history:
\* genCalls / webCalls (searchWithAI and searchFromWeb calls made), decs (decrements made), ending (how the call
\* left the race), partial (results when the catch block was entered),
\* direct (the answer of the searchWithAI call made at the ceiling or in
\* the catch block), late (store writes made by the call after it returned),
\* status (the status the HTTP route answers with), siteCalls (the calls of
\* searchWebsiteWithSitemcp made for the call).
IdleCall ==
  [pc |-> "idle", work |-> "none", category |-> Undefined, useWeb |-> TRUE,
   results |-> <<>>, ret |-> Return(<<>>),
   response |-> [isError |-> FALSE, data |-> <<>>, error |-> <<>>],
   genCalls |-> 0, webCalls |-> 0, decs |-> 0,
   ending |-> "none", partial |-> <<>>, direct |-> Return(<<>>), late |-> 0,
   web |-> <<>>, merged |-> <<>>, status |-> 0, siteCalls |-> 0]

\* no store or summary request made yet
NoRequest == [op |-> "none"]

Init ==
  /\ activeSearchRequests = 0
  /\ files = <<>>
  /\ now = 0
  /\ saves = 0
  /\ calls = [c \in AllCalls |-> IdleCall]
  /\ last = NoRequest

\* A step of one call works on st = [call, active]: the call's record and
\* the counter.

\* searchItems returns r: handleSearchItems builds the envelope
ReturnToCaller(st, r) ==
  [st EXCEPT !.call.pc = "done", !.call.ret = r,
             !.call.response = handleSearchItems(r),
             !.call.status =
                createExpressHandler(Return(HttpStatus(handleSearchItems(r))))]

\* variant: a finally block without the decrement
FinallyKeepsCounter(st) ==
  [st EXCEPT !.call.decs = @ + 1]

\* the finally block
Finally(st) ==
  [st EXCEPT !.call.decs = @ + 1, !.active = @ - 1]

\* the catch block, entered with the error's message
EnterCatch(st, message, how) ==
  LET s1 == [st EXCEPT !.call.ending = how,
                       !.call.partial = st.call.results]
  IN IF CatchReturnsPartial(message, st.call.results)
       THEN Finally(ReturnToCaller(s1, Return(st.call.results)))
       ELSE [s1 EXCEPT !.call.pc = "fallback", !.call.genCalls = @ + 1]

\* searchPromise settles with res; searchItems resumes only if it is still
\* awaiting the race
SettleRace(st, res) ==
  LET s1 == [st EXCEPT !.call.work = "settled"]
  IN IF st.call.pc # "race" THEN s1
     ELSE IF res.thrown THEN EnterCatch(s1, res.message, "failure")
     ELSE Finally(ReturnToCaller([s1 EXCEPT !.call.ending = "completed"], res))

\* variant: the increment placed before the admission test
EnterSearchCountsDegraded(st, category, useWeb) ==
  LET s1 == [st EXCEPT !.call.category = category, !.call.useWeb = useWeb,
                       !.call.genCalls = 1, !.active = @ + 1]
  IN IF AtCeiling(st.active)
       THEN [s1 EXCEPT !.call.pc = "degraded", !.call.ending = "degraded"]
       ELSE [s1 EXCEPT !.call.pc = "race", !.call.work = "ai"]

\* variant: searchPromise starts searchFromWeb together with searchWithAI
StartSearchPromiseBothBranches(st) ==
  [st EXCEPT !.call.pc = "race", !.call.work = "ai",
             !.call.webCalls = IF st.call.useWeb THEN 1 ELSE 0]

\* searchPromise starts: its async function runs up to its first await, the
\* one of searchWithAI; searchFromWeb is called after that await only
StartSearchPromise(st) ==
  [st EXCEPT !.call.pc = "race", !.call.work = "ai"]

\* searchItems up to its first await: the admission test, then either the
\* degraded searchWithAI call or the increment and the start of the race
EnterSearch(st, category, useWeb) ==
  LET s1 == [st EXCEPT !.call.category = category, !.call.useWeb = useWeb,
                       !.call.genCalls = 1]
  IN IF AtCeiling(st.active)
       THEN [s1 EXCEPT !.call.pc = "degraded", !.call.ending = "degraded"]
       ELSE StartSearchPromise([s1 EXCEPT !.active = @ + 1])

Step(c, st) ==
  /\ calls' = [calls EXCEPT ![c] = st.call]
  /\ activeSearchRequests' = st.active

Cur(c) == [call |-> calls[c], active |-> activeSearchRequests]

\* ------------------------------------------------------------------- actions
\* a search_items request arrives
SearchItems(c, category, useWeb) ==
  /\ calls[c].pc = "idle"
  /\ Step(c, EnterSearch(Cur(c), category, useWeb))
  /\ UNCHANGED <<files, now, saves, last>>

\* the Generative source answers the call made at the ceiling
DegradedRespond(c, outcome) ==
  /\ calls[c].pc = "degraded"
  /\ LET r == searchWithAI(outcome, c, 1, now)
     IN Step(c, ReturnToCaller([Cur(c) EXCEPT !.call.direct = r], r))
  /\ UNCHANGED <<files, now, saves, last>>

\* variant: searchFromWeb called whatever useWeb is
AiRespondAlwaysWeb(c, outcome) ==
  /\ calls[c].work = "ai"
  /\ LET aiResults == searchWithAI(outcome, c, 1, now)
         s1 == [Cur(c) EXCEPT !.call.results =
                                 IF aiResults.thrown THEN @ ELSE aiResults.val]
     IN IF aiResults.thrown
          THEN Step(c, SettleRace(s1, aiResults))
        ELSE IF TRUE
          THEN Step(c, [s1 EXCEPT !.call.work = "web", !.call.webCalls = @ + 1])
        ELSE Step(c, SettleRace(s1,
                       FilterByCategory(s1.call.results, calls[c].category)))
  /\ UNCHANGED <<files, now, saves, last>>

\* the Generative source answers branch A; without useWeb the category
\* filter runs and searchPromise settles
AiRespond(c, outcome) ==
  /\ calls[c].work = "ai"
  /\ LET aiResults == searchWithAI(outcome, c, 1, now)
         s1 == [Cur(c) EXCEPT !.call.results =
                                 IF aiResults.thrown THEN @ ELSE aiResults.val]
     IN IF aiResults.thrown
          THEN Step(c, SettleRace(s1, aiResults))
        ELSE IF calls[c].useWeb
          THEN Step(c, [s1 EXCEPT !.call.work = "web", !.call.webCalls = @ + 1])
        ELSE Step(c, SettleRace(s1,
                       FilterByCategory(s1.call.results, calls[c].category)))
  /\ UNCHANGED <<files, now, saves, last>>

\* the web-oriented answer arrives and the enabled sites have been
\* gathered: searchFromWeb returns, the merge and the category filter run
\* and searchPromise settles; faults are the I/O failures the store meets
\* during the merge, envs what the enabled sites meet
WebRespond(c, outcome, faults, envs) ==
  /\ calls[c].work = "web"
  /\ LET webResults == searchFromWeb(outcome, envs, c, now).val
         start == [files |-> files, results |-> calls[c].results, log |-> <<>>]
         faultOf == [i \in 1..Len(webResults) |->
                       IF i \in DOMAIN faults THEN faults[i] ELSE "none"]
         merged == IF Len(webResults) > 0
                     THEN Merge(start, webResults, 1, now, faultOf)
                     ELSE start
         s1 == [Cur(c) EXCEPT !.call.results = merged.results,
                              !.call.web = webResults,
                              !.call.siteCalls = @ + Len(envs),
                              !.call.merged = merged.log,
                              !.call.late =
                                 IF calls[c].pc = "done" /\ merged.files # files
                                   THEN @ + 1 ELSE @]
     IN /\ files' = merged.files
        /\ Step(c, SettleRace(s1, FilterByCategory(merged.results,
                                                   calls[c].category)))
  /\ UNCHANGED <<now, saves, last>>

\* the overall timer fires while searchItems awaits the race
Timeout(c) ==
  /\ calls[c].pc = "race"
  /\ Step(c, EnterCatch(Cur(c), TimeoutMessage, "timeout"))
  /\ UNCHANGED <<files, now, saves, last>>

\* the Generative source answers the call of the catch block
FallbackRespond(c, outcome) ==
  /\ calls[c].pc = "fallback"
  /\ LET r == searchWithAI(outcome, c, 2, now)
     IN Step(c, Finally(ReturnToCaller([Cur(c) EXCEPT !.call.direct = r],
                                       CatchEmpty(r))))
  /\ UNCHANGED <<files, now, saves, last>>

\* a save_item request: handleSaveItem around ItemSearchService.saveItem
SaveItem(input, pos, writeOk) ==
  /\ saves < MaxSaves
  /\ pos \in 1..(Len(files) + 1)
  /\ LET r == ItemSearchService_saveItem(files, input, saves + 1, now, pos,
                                         writeOk)
     IN /\ files' = r.files
        /\ last' = [op |-> "save_item", handled |-> TRUE, input |-> input,
                    response |-> handleSaveItem(r.result),
                    status |-> createExpressHandler(
                                 Return(HttpStatus(handleSaveItem(r.result))))]
  /\ saves' = saves + 1
  /\ UNCHANGED <<activeSearchRequests, now, calls>>

\* a save_item request over HTTP whose body fails itemSchema: 400, the
\* handler not called
SaveItemRejected(body) ==
  /\ ~itemSchemaValid(body)
  /\ last' = [op |-> "save_item", handled |-> FALSE, input |-> body,
              status |-> createExpressHandler(Return(400))]
  /\ UNCHANGED <<activeSearchRequests, files, now, saves, calls>>

\* a search_items request over HTTP with a falsy query: 400, the handler
\* not called
SearchItemsRejected(query) ==
  /\ ~Truthy(query)
  /\ last' = [op |-> "search_items", handled |-> FALSE, query |-> query,
              status |-> createExpressHandler(Return(400))]
  /\ UNCHANGED <<activeSearchRequests, files, now, saves, calls>>

\* findDuplicateItem(candidate) against the store, its files readable or not
FindDuplicate(candidate, readOk) ==
  /\ last' = [op |-> "findDuplicateItem", candidate |-> candidate,
              readOk |-> readOk,
              out |-> findDuplicateItem(files, candidate, readOk)]
  /\ UNCHANGED <<activeSearchRequests, files, now, saves, calls>>

\* getAllItems() against the store, the files at the positions bad unreadable
GetAllItems(bad) ==
  /\ last' = [op |-> "getAllItems", bad |-> bad,
              out |-> getAllItems(files, bad = {})]
  /\ UNCHANGED <<activeSearchRequests, files, now, saves, calls>>

\* getItem(id) against the store, the file of the record readable or not
GetItem(id, readOk) ==
  /\ last' = [op |-> "getItem", id |-> id, readOk |-> readOk,
              out |-> Return(getItem(files, id, readOk))]
  /\ UNCHANGED <<activeSearchRequests, files, now, saves, calls>>

\* a get_items_by_category request; the HTTP route turns a missing category
\* into ""
GetItemsByCategory(category, bad) ==
  /\ LET response == handleGetItemsByCategory(
                       files, IF IsDefined(category) THEN category
                              ELSE Some(<<>>), bad = {})
     IN last' = [op |-> "get_items_by_category", handled |-> TRUE,
                 category |-> category,
                 bad |-> bad, response |-> response,
                 status |-> createExpressHandler(Return(HttpStatus(response)))]
  /\ UNCHANGED <<activeSearchRequests, files, now, saves, calls>>

\* a generate_markdown_summary request over MCP (status 0) or HTTP: the
\* HTTP route answers 400 to a falsy title without calling the handler;
\* the handler reads the store, then awaits the Generative source, whose
\* outcome touches no shared state
GenerateMarkdownSummary(transport, title, category, bad, outcome) ==
  /\ LET items == SummaryItems(files, category, bad = {})
         g == generateMarkdownSummary(Val(title), items, outcome)
         response == handleGenerateMarkdownSummary(g.result)
     IN last' =
          IF transport = "http" /\ ~Truthy(title)
            THEN [op |-> "generate_markdown_summary", handled |-> FALSE,
                  transport |-> transport, title |-> title, status |-> 400]
            ELSE [op |-> "generate_markdown_summary", handled |-> TRUE,
                  transport |-> transport, title |-> title,
                  category |-> category, bad |-> bad, items |-> items,
                  outcome |-> outcome, asked |-> g.asked,
                  response |-> response,
                  status |-> IF transport = "http"
                               THEN createExpressHandler(
                                      Return(HttpStatus(response)))
                               ELSE 0]
  /\ UNCHANGED <<activeSearchRequests, files, now, saves, calls>>

\* searchWebsiteWithSitemcp(website, query) against a file system
SearchWebsite(website, env) ==
  /\ LET r == searchWebsiteWithSitemcp(website, env, now)
     IN last' = [op |-> "searchWebsiteWithSitemcp", website |-> website,
                 env |-> env, result |-> r.result,
                 sitemcpRuns |-> r.sitemcpRuns, killed |-> r.killed,
                 deadline |-> r.deadline]
  /\ UNCHANGED <<activeSearchRequests, files, now, saves, calls>>

\* the body of searchFromWeb run for a site list
SearchFromWeb(websites, outcome, envs) ==
  /\ last' = [op |-> "searchFromWeb", websites |-> websites,
              outcome |-> outcome, envs |-> envs,
              direct |-> generateWebItems(outcome, 0, now),
              result |-> SearchFromWebOver(websites, outcome, envs, 0, now)]
  /\ UNCHANGED <<activeSearchRequests, files, now, saves, calls>>

\* time passes
Tick ==
  /\ now < MaxTime
  /\ now' = now + 1
  /\ UNCHANGED <<activeSearchRequests, files, saves, calls, last>>

\* -------------------------------------------------------------------- inputs
Str1(a) == Some(<<a>>)
Str2(a, b) == Some(<<a, b>>)

\* what the Generative source may put into an item of its JSON array
RawGrantWeb ==
  [name |-> Str2("G", "A"), organization |-> Str2("X", "F"),
   url |-> Str1("u"), category |-> Str2("I", "T")]
RawSimilar ==
  [name |-> Str1("g"), organization |-> Str1("x"),
   url |-> Str1("v"), category |-> Str2("i", "t")]
RawOther ==
  [name |-> Str1("B"), organization |-> Str1("Y"),
   url |-> Str1("w"), category |-> Str2("H", "R")]
RawNoCategory ==
  [name |-> Str1("B"), organization |-> Str1("Y"),
   url |-> Str1("w"), category |-> Undefined]

\* the bodies of save_item requests (validated: every property a string)
SaveGrant ==
  [name |-> Str2("G", "A"), organization |-> Str1("X"),
   url |-> Str1("u"), category |-> Str2("I", "T")]
SaveOther ==
  [name |-> Str1("B"), organization |-> Str1("Y"),
   url |-> Str1("w"), category |-> Str2("H", "R")]
SaveInputs == {SaveGrant, SaveOther}

Ok(items) == [kind |-> "ok", items |-> items]
Failing == [kind |-> "throw", items |-> <<>>]
NoJson == [kind |-> "nojson", items |-> <<>>]

FaultKinds == {"none", "list", "get", "write"}
FaultsFor(outcome) == [1..Len(outcome.items) -> FaultKinds]

CategoryIt == Str2("i", "t")

\* the merge specification: searches below the ceiling against a store
\* that manual saves fill
DataRequests ==
  {[category |-> Undefined, useWeb |-> TRUE],
   [category |-> CategoryIt, useWeb |-> TRUE],
   [category |-> CategoryIt, useWeb |-> FALSE]}
DataAiOutcomes ==
  {Failing, Ok(<<RawOther>>), Ok(<<RawGrantWeb>>), Ok(<<RawNoCategory>>)}
DataWebOutcomes ==
  {Failing, Ok(<<RawGrantWeb>>), Ok(<<RawGrantWeb, RawSimilar>>),
   Ok(<<RawOther>>)}

\* the admission specification: more calls than the ceiling admits
GateRequests == {[category |-> CategoryIt, useWeb |-> TRUE]}
GateAiOutcomes == {Ok(<<RawOther>>)}
GateDegradedOutcomes == {Failing, Ok(<<RawOther>>)}
GateWebOutcomes == {Ok(<<RawSimilar>>), Ok(<<RawNoCategory>>)}

\* the store specification: a db directory that earlier runs filled.  A
\* stored record is a manual save (every property a string, possibly "") or
\* a record a merge updated; the record at position k was given the id
\* <<"item", 0, 0, k>>.
StoredGrant ==
  [name |-> Str2("G", "A"), organization |-> Str1("X"),
   url |-> Str1("u"), category |-> Str2("I", "T"),
   source |-> ManualSource, createdAt |-> 0, updatedAt |-> Undefined]
StoredLower ==
  [name |-> Str2("g", "a"), organization |-> Str1("Y"),
   url |-> Str1("w"), category |-> Str2("H", "R"),
   source |-> ManualSource, createdAt |-> 0, updatedAt |-> Undefined]
StoredLong ==
  [name |-> Some(<<"G", "A", "B">>), organization |-> Str2("X", "F"),
   url |-> Str1("v"), category |-> Str2("I", "T"),
   source |-> <<"X", "F", WebSearchMark, UpdatedMark>>,
   createdAt |-> 0, updatedAt |-> Some(0)]
StoredEmpty ==
  [name |-> Some(<<>>), organization |-> Some(<<>>),
   url |-> Some(<<>>), category |-> Some(<<>>),
   source |-> ManualSource, createdAt |-> 0, updatedAt |-> Undefined]
StoredBodies == {StoredGrant, StoredLower, StoredLong, StoredEmpty}

WithId(body, k) ==
  [id |-> <<"item", 0, 0, k>>, name |-> body.name,
   organization |-> body.organization, url |-> body.url,
   category |-> body.category, source |-> body.source,
   createdAt |-> body.createdAt, updatedAt |-> body.updatedAt]

StoreInits ==
  UNION {{[k \in 1..n |-> WithId(bodies[k], k)] :
            bodies \in [1..n -> StoredBodies]} : n \in 0..MaxStore}

\* save_item bodies that fail itemSchema: a required property missing
InvalidBodies ==
  {[SaveGrant EXCEPT !.name = Undefined],
   [SaveOther EXCEPT !.category = Undefined]}

\* the sites and what they meet
SiteA ==
  [name |-> <<"A">>, url |-> <<"a">>, enabled |-> TRUE,
   description |-> <<"d">>]
SiteB ==
  [name |-> <<"B">>, url |-> <<"b">>, enabled |-> TRUE, description |-> <<>>]
SiteOff ==
  [name |-> <<"C">>, url |-> <<"c">>, enabled |-> FALSE,
   description |-> <<>>]
Sites == {SiteA, SiteB, SiteOff}
SiteEnvs ==
  [tmpExists : BOOLEAN, mkdirOk : BOOLEAN,
   home1 : {Undefined, Some(<<"item">>)},
   home2 : {Undefined, Some(<<"skip", "item", "null">>)},
   alt : {Undefined, Some(<<>>), Some(<<"bad">>),
          Some(<<"item", "item", "item", "item">>)},
   listOk : BOOLEAN,
   sitemcp : {[kind |-> "timeout", wrote |-> Undefined],
              [kind |-> "exit", wrote |-> Some(<<"item">>)]}]

\* a site with pages, a site without a cache, a site whose directories
\* cannot be prepared
EnvWithPages ==
  [tmpExists |-> TRUE, mkdirOk |-> TRUE, home1 |-> Some(<<"item">>),
   home2 |-> Undefined, alt |-> Some(<<>>), listOk |-> TRUE,
   sitemcp |-> [kind |-> "timeout", wrote |-> Undefined]]
EnvNoCache == [EnvWithPages EXCEPT !.home1 = Undefined, !.alt = Undefined]
EnvMkdirThrows == [EnvNoCache EXCEPT !.mkdirOk = FALSE]
SiteEnvsFew == {EnvWithPages, EnvNoCache, EnvMkdirThrows}
EnvsFor(websites) == [1..Len(EnabledWebsites(websites)) -> SiteEnvsFew]
SiteLists ==
  {<<>>, <<SiteA>>, <<SiteOff>>, <<SiteA, SiteB>>, <<SiteA, SiteOff>>,
   <<SiteOff, SiteB>>}

\* two concurrent searches whose web records both carry the name of the one
\* stored record, in different case and with different other properties
RawGrantLower ==
  [name |-> Str2("g", "a"), organization |-> Str1("Y"),
   url |-> Str1("w"), category |-> Str2("H", "R")]
RaceCalls == 1..MAX_SIMULTANEOUS_SEARCHES
RaceWebOutcomes == {Ok(<<RawGrantWeb>>), Ok(<<RawGrantLower>>)}
RaceStore == <<WithId(StoredGrant, 1)>>

\* the ids getItem is asked for: of stored records and of none
AskedIds == {<<"item", 0, 0, 1>>, <<"item", 0, 1, 0>>, <<"item", 9, 9, 9>>}

\* the category filters of get_items_by_category and of the summary
CategoryFilters == {Undefined, Some(<<>>), CategoryIt, Str1("Q")}

\* summary requests: over MCP or HTTP, the title "" among them
SummaryRequests ==
  [transport : {"mcp"}, title : {Str1("T")},
   category : {Undefined, CategoryIt, Str1("Q")}]
  \cup [transport : {"http"}, title : {Str1("T"), Str1("S"), Some(<<>>)},
        category : {Undefined, CategoryIt}]

\* what model.generateContent does for a summary
SummaryOutcomes ==
  {[kind |-> "throw", message |-> <<"q", "u", "o", "t", "a">>, text |-> <<>>],
   [kind |-> "ok", message |-> <<>>, text |-> <<"#", " ", "m", "d">>]}

\* the candidates of findDuplicateItem: a Partial<ItemInfo>, each property
\* missing, empty or a string
Cand(n, o, u) == [name |-> n, organization |-> o, url |-> u]
Candidates ==
  {Cand(Str2("G", "A"), Str1("x"), Str1("u")),
   Cand(Str2("g", "a"), Undefined, Undefined),
   Cand(Str2("g", "a"), Str1("x"), Str1("z")),
   Cand(Some(<<"G", "A", "B">>), Str1("Q"), Str1("z")),
   Cand(Str1("g"), Str1("x"), Str1("z")),
   Cand(Str1("g"), Some(<<>>), Str1("u")),
   Cand(Str1("g"), Some(<<>>), Str1("z")),
   Cand(Str1("g"), Undefined, Undefined),
   Cand(Some(<<>>), Str1("x"), Str1("u")),
   Cand(Some(<<>>), Some(<<>>), Some(<<>>)),
   Cand(Undefined, Str1("x"), Str1("u")),
   Cand(Str1("Q"), Str1("x"), Str1("u"))}

\* ------------------------------------------------------------ specifications
SearchStep(c, requests, aiOutcomes, webOutcomes, lateOutcomes) ==
  \/ \E r \in requests : SearchItems(c, r.category, r.useWeb)
  \/ \E o \in aiOutcomes : AiRespond(c, o)
  \/ \E o \in webOutcomes : \E f \in FaultsFor(o) :
       \E envs \in EnvsFor(targetWebsites) : WebRespond(c, o, f, envs)
  \/ Timeout(c)
  \/ \E o \in lateOutcomes : FallbackRespond(c, o)

\* one search, never at the ceiling
Next ==
  \/ SearchStep(1, DataRequests, DataAiOutcomes, DataWebOutcomes,
                DataAiOutcomes)
  \/ \E input \in SaveInputs : \E pos \in 1..(MaxSaves + 1) :
       \E writeOk \in BOOLEAN : SaveItem(input, pos, writeOk)
  \/ Tick

Spec == Init /\ [][Next]_vars

GateNext ==
  \/ \E c \in 1..NumCalls :
       SearchStep(c, GateRequests, GateAiOutcomes, GateWebOutcomes,
                  GateAiOutcomes)
  \/ \E c \in 1..NumCalls : \E o \in GateDegradedOutcomes : DegradedRespond(c, o)

GateSpec == Init /\ [][GateNext]_vars

\* the store specification: requests against a filled db directory
StoreInit ==
  /\ activeSearchRequests = 0
  /\ files \in StoreInits
  /\ now = 0
  /\ saves = 0
  /\ calls = [c \in AllCalls |-> IdleCall]
  /\ last = NoRequest

StoreNext ==
  \/ \E input \in SaveInputs : \E pos \in 1..(MaxStore + MaxSaves + 1) :
       \E writeOk \in BOOLEAN : SaveItem(input, pos, writeOk)
  \/ \E candidate \in Candidates : \E readOk \in BOOLEAN :
       FindDuplicate(candidate, readOk)
  \/ \E bad \in SUBSET (1..Len(files)) : GetAllItems(bad)
  \/ \E id \in AskedIds : \E readOk \in BOOLEAN : GetItem(id, readOk)

StoreSpec == StoreInit /\ [][StoreNext]_vars

\* the reading requests of the tools against a filled db directory
SummaryNext ==
  \/ \E category \in CategoryFilters : \E bad \in SUBSET (1..Len(files)) :
       GetItemsByCategory(category, bad)
  \/ \E r \in SummaryRequests : \E readOk \in BOOLEAN :
       \E outcome \in SummaryOutcomes :
         GenerateMarkdownSummary(r.transport, r.title, r.category,
                                 IF readOk THEN {} ELSE {1}, outcome)

SummarySpec == StoreInit /\ [][SummaryNext]_vars

\* the race specification: as many searches as the ceiling admits, in flight
\* together against a store that holds the record their web records match
RaceInit ==
  /\ activeSearchRequests = 0
  /\ files = RaceStore
  /\ now = 0
  /\ saves = 0
  /\ calls = [c \in AllCalls |-> IdleCall]
  /\ last = NoRequest

RaceNext ==
  \/ \E c \in RaceCalls :
       SearchStep(c, {[category |-> Undefined, useWeb |-> TRUE]},
                  {Ok(<<RawOther>>)}, RaceWebOutcomes, {Ok(<<RawOther>>)})
  \/ Tick

RaceSpec == RaceInit /\ [][RaceNext]_vars

\* the site specification: the Site Scraper against the file systems and
\* the body of searchFromWeb over site lists
SiteNext ==
  \/ \E website \in Sites : \E env \in SiteEnvs : SearchWebsite(website, env)
  \/ \E websites \in SiteLists :
       \E outcome \in {Failing, NoJson, Ok(<<RawOther>>)} :
       \E envs \in EnvsFor(websites) : SearchFromWeb(websites, outcome, envs)

SiteSpec == Init /\ [][SiteNext]_vars

\* the HTTP specification: the four tool routes, one search
HttpNext ==
  \/ SearchStep(1, GateRequests, GateAiOutcomes, GateWebOutcomes,
                GateAiOutcomes)
  \/ \E query \in {Undefined, Some(<<>>)} : SearchItemsRejected(query)
  \/ \E input \in SaveInputs : \E pos \in 1..(MaxSaves + 1) :
       \E writeOk \in BOOLEAN : SaveItem(input, pos, writeOk)
  \/ \E body \in InvalidBodies : SaveItemRejected(body)
  \/ \E category \in CategoryFilters : \E readOk \in BOOLEAN :
       GetItemsByCategory(category, IF readOk THEN {} ELSE {1})
  \/ \E r \in SummaryRequests : \E readOk \in BOOLEAN :
       \E outcome \in SummaryOutcomes :
         GenerateMarkdownSummary(r.transport, r.title, r.category,
                                 IF readOk THEN {} ELSE {1}, outcome)

HttpSpec == Init /\ [][HttpNext]_vars

\* --------------------------------------------------------------- properties
InFlight == {c \in AllCalls : calls[c].pc \in {"race", "fallback"}}

\* C1: a search that starts while the counter is at or above the ceiling
\* awaits only the direct answer of the Generative source and returns
\* exactly it: no web gathering, no store access, the counter left alone
C1_DegradedAtCeiling ==
  [][\A c \in AllCalls :
       /\ (calls[c].pc = "idle" /\ calls'[c].pc # "idle"
           /\ activeSearchRequests >= MAX_SIMULTANEOUS_SEARCHES)
            => /\ calls'[c].pc = "degraded"
               /\ calls'[c].work = "none"
               /\ activeSearchRequests' = activeSearchRequests
               /\ files' = files
       /\ (calls[c].pc = "degraded" /\ calls'[c].pc # "degraded")
            => /\ calls'[c].pc = "done"
               /\ calls'[c].ret = calls'[c].direct
               /\ calls'[c].genCalls = 1
               /\ calls'[c].webCalls = 0
               /\ calls'[c].work = "none"
               /\ calls'[c].decs = 0
               /\ activeSearchRequests' = activeSearchRequests
               /\ files' = files]_vars

\* the call after the ceiling has returned a record while
\* MAX_SIMULTANEOUS_SEARCHES admitted searches are still in flight
C1_Witness ==
  \E c \in AllCalls :
    /\ calls[c].pc = "done" /\ calls[c].ending = "degraded"
    /\ Len(calls[c].ret.val) > 0
    /\ Cardinality(InFlight) = MAX_SIMULTANEOUS_SEARCHES
    /\ activeSearchRequests = MAX_SIMULTANEOUS_SEARCHES

C3_TimeoutReturnsPartial ==
  \A c \in AllCalls :
    (calls[c].ending = "timeout" /\ Len(calls[c].partial) > 0)
      => /\ calls[c].pc = "done"
         /\ calls[c].ret = Return(calls[c].partial)
         /\ calls[c].genCalls = 1

\* C4: a search that times out with an empty working result set, or fails
\* in its branches, returns the answer of exactly one fresh searchWithAI
\* call (the empty list if it failed); the workflow is not run again
C4_FallbackOnce ==
  \A c \in AllCalls :
    ((calls[c].ending = "timeout" /\ calls[c].partial = <<>>)
       \/ calls[c].ending = "failure")
      => /\ calls[c].pc \in {"fallback", "done"}
         /\ calls[c].genCalls = 2
         /\ calls[c].webCalls <= 1
         /\ calls[c].pc = "done"
              => /\ ~calls[c].ret.thrown
                 /\ calls[c].ret.val =
                      (IF calls[c].direct.thrown THEN <<>>
                       ELSE calls[c].direct.val)

\* a search timed out before anything was accumulated and returned the
\* record of the fresh call
C4_Witness ==
  \E c \in AllCalls :
    /\ calls[c].pc = "done" /\ calls[c].ending = "timeout"
    /\ calls[c].partial = <<>>
    /\ Len(calls[c].ret.val) > 0

\* C5: an admitted search decrements the counter exactly once on every
\* exit path, a degraded one never; with no search in progress it is 0
C5_DecrementOnce ==
  /\ \A c \in AllCalls :
       /\ calls[c].decs <= 1
       /\ calls[c].pc \in {"idle", "degraded", "race", "fallback"}
            => calls[c].decs = 0
       /\ calls[c].pc = "done"
            => calls[c].decs = (IF calls[c].ending = "degraded" THEN 0 ELSE 1)
  /\ (\A c \in AllCalls : calls[c].pc \in {"idle", "done"})
       => activeSearchRequests = 0

\* every call has returned: one completed, one timed out, one was degraded
C5_Witness ==
  /\ \A c \in AllCalls : calls[c].pc = "done"
  /\ \E c \in AllCalls : calls[c].ending = "completed"
  /\ \E c \in AllCalls : calls[c].ending \in {"timeout", "failure"}
  /\ \E c \in AllCalls : calls[c].ending = "degraded"

\* C6: the counter is the number of admitted searches that have not
\* returned, and lies between 0 and the ceiling
C6_CounterIsInFlight ==
  /\ activeSearchRequests = Cardinality(InFlight)
  /\ activeSearchRequests >= 0
  /\ activeSearchRequests <= MAX_SIMULTANEOUS_SEARCHES

\* the counter is at the ceiling while a further call is being served
C6_Witness ==
  /\ activeSearchRequests = MAX_SIMULTANEOUS_SEARCHES
  /\ \E c \in AllCalls : calls[c].pc = "degraded"

\* the last web item of a merge log that updated the stored record dup
LastUpdate(log, dup) ==
  CHOOSE k \in 1..Len(log) :
    /\ log[k].dup = dup /\ log[k].updated
    /\ \A k2 \in 1..Len(log) :
         (log[k2].dup = dup /\ log[k2].updated) => k2 <= k

NoTwoWithSameId(res) ==
  \A i, j \in 1..Len(res) : i # j => res[i].id # res[j].id

\* C7 as stated: every web record for which findDuplicateItem returned an
\* id has updated the stored record and is in the working result set under
\* that id, and no id occurs twice in the working result set
C7_DuplicateAlwaysMerged ==
  \A c \in AllCalls :
    calls[c].work = "settled"
      => /\ \A k \in 1..Len(calls[c].merged) :
              calls[c].merged[k].dup # NoId
                => \E j \in 1..Len(calls[c].results) :
                     calls[c].results[j].id = calls[c].merged[k].dup
         /\ NoTwoWithSameId(calls[c].results)

\* C7 amended: what C7 states holds of every web record for which
\* findDuplicateItem returned an id and updateItem returned a record; the
\* entry in the working result set is the stored record, carries the fields
\* of the last such web record and the updated mark; the merge keeps every
\* stored id and createdAt; no id occurs twice in the working result set
C7_UpdatedDuplicateMerged ==
  /\ [](\A c \in AllCalls :
         calls[c].work = "settled"
           => /\ Len(calls[c].merged) = Len(calls[c].web)
              /\ \A k \in 1..Len(calls[c].merged) :
                   (calls[c].merged[k].dup # NoId /\ calls[c].merged[k].updated)
                     => LET dup == calls[c].merged[k].dup
                            w == calls[c].web[LastUpdate(calls[c].merged, dup)]
                        IN \E j \in 1..Len(calls[c].results) :
                             LET r == calls[c].results[j]
                             IN /\ r.id = dup
                                /\ r.id # w.id
                                /\ r.name = w.name
                                /\ r.organization = w.organization
                                /\ r.url = w.url
                                /\ r.category = w.category
                                /\ r.source = w.source \o <<UpdatedMark>>
                                /\ IsDefined(r.updatedAt)
                                /\ \E i \in 1..Len(files) : files[i] = r
              /\ NoTwoWithSameId(calls[c].results))
  /\ [][\A c \in AllCalls :
          (calls[c].work = "web" /\ calls'[c].work = "settled")
            => /\ Len(files') = Len(files)
               /\ \A i \in 1..Len(files) :
                    /\ files'[i].id = files[i].id
                    /\ files'[i].createdAt = files[i].createdAt]_vars

\* two web records matched the same stored record: the second replaced the
\* first in place
C7_Witness ==
  \E c \in AllCalls :
    /\ calls[c].work = "settled"
    /\ Len(calls[c].merged) = 2
    /\ calls[c].merged[1].dup # NoId
    /\ calls[c].merged[2].dup = calls[c].merged[1].dup
    /\ calls[c].merged[1].updated /\ calls[c].merged[2].updated
    /\ \E j \in 1..Len(calls[c].results) :
         /\ calls[c].results[j].id = calls[c].merged[1].dup
         /\ calls[c].results[j].name = calls[c].web[2].name

\* C8: no step of a search adds or removes a record file; a web record
\* (GA, XF) met by a store holding only (GA, X) is found to be a duplicate
\* and written under the stored id, the store keeping its one record
C8_StoreIdsKept ==
  [][\A c \in AllCalls :
       /\ calls'[c] # calls[c]
            => /\ Len(files') = Len(files)
               /\ \A i \in 1..Len(files) : files'[i].id = files[i].id
       /\ (/\ calls[c].work = "web" /\ calls'[c].work = "settled"
           /\ Len(files) = 1
           /\ files[1].name = Str2("G", "A")
           /\ files[1].organization = Str1("X")
           /\ Len(calls'[c].web) = 1
           /\ calls'[c].web[1].name = Str2("G", "A")
           /\ calls'[c].web[1].organization = Str2("X", "F"))
            => /\ findDuplicateItem(files, calls'[c].web[1], TRUE)
                    = files[1].id
               /\ Len(files') = 1
               /\ calls'[c].merged[1].updated
                    => /\ files'[1].id = files[1].id
                       /\ files'[1].organization = Str2("X", "F")]_vars

\* the stored record of the manual save carries the web record's
\* organization and the store still holds one record
C8_Witness ==
  /\ Len(files) = 1
  /\ files[1].id = <<"item", 0, 1, 0>>
  /\ files[1].organization = Str2("X", "F")
  /\ \E c \in AllCalls :
       /\ calls[c].work = "settled" /\ Len(calls[c].web) = 1
       /\ calls[c].merged[1].updated

AllMatchCategory(c) ==
  \A i \in 1..Len(calls[c].ret.val) :
    /\ IsDefined(calls[c].ret.val[i].category)
    /\ CategoryMatches(calls[c].ret.val[i], Val(calls[c].category))

\* C9 as stated: whenever a category is supplied, every returned record's
\* category contains it case-insensitively, however the search ends
C9_AlwaysFiltered ==
  \A c \in AllCalls :
    (calls[c].pc = "done" /\ Truthy(calls[c].category))
      => AllMatchCategory(c)

\* C9 amended: whenever a category is supplied to a search that completes
\* the full workflow, every returned record's category contains it
\* case-insensitively, the filter being applied to the merged result set
C9_CompletedFiltered ==
  \A c \in AllCalls :
    (calls[c].pc = "done" /\ calls[c].ending = "completed"
       /\ Truthy(calls[c].category))
      => /\ AllMatchCategory(c)
         /\ calls[c].ret.val =
              SelectSeq(calls[c].results,
                        LAMBDA it : CategoryMatches(it, Val(calls[c].category)))

\* a completed search returned some of its merged records and dropped
\* others
C9_Witness ==
  \E c \in AllCalls :
    /\ calls[c].pc = "done" /\ calls[c].ending = "completed"
    /\ Truthy(calls[c].category)
    /\ Len(calls[c].ret.val) > 0
    /\ Len(calls[c].ret.val) < Len(calls[c].results)

\* the admission specification with timers that fire; the answers of the
\* Generative source are not required to arrive
LiveSpec ==
  GateSpec /\ \A c \in AllCalls : WF_vars(Timeout(c))

\* C10: with timers that fire, every search call returns and, if it was
\* admitted, releases its slot
C10_EverySearchReturns ==
  \A c \in AllCalls :
    (calls[c].pc \in {"degraded", "race", "fallback"})
      ~> (calls[c].pc = "done" /\ c \notin InFlight)

\* ------------------------------------------------- properties of the store
AskedDuplicate == last.op = "findDuplicateItem"

\* the records findDuplicateItem sees: the listing of the store
Listing == getAllItems(files, last.readOk)

LowerEqual(a, b) == toLowerCase(a) = toLowerCase(b)
LowerInside(needle, hay) == includes(toLowerCase(hay), toLowerCase(needle))

\* tier 1: the stored name equals the candidate's name, whatever the case
Tier1(r, cand) ==
  IsDefined(cand.name) /\ LowerEqual(Val(r.name), Val(cand.name))

\* tier 2 as worded: the candidate's name inside the stored name and (the
\* candidate's organization inside the stored one or the urls equal), a
\* missing property matching nothing and an empty one read as a string
Tier2Worded(r, cand) ==
  /\ IsDefined(cand.name) /\ LowerInside(Val(cand.name), Val(r.name))
  /\ \/ /\ IsDefined(cand.organization)
        /\ LowerInside(Val(cand.organization), Val(r.organization))
     \/ IsDefined(cand.url) /\ Val(cand.url) = Val(r.url)

\* tier 2 with the candidate's name, organization and url counted only when
\* they are not empty
Tier2(r, cand) ==
  /\ Truthy(cand.name) /\ LowerInside(Val(cand.name), Val(r.name))
  /\ \/ /\ Truthy(cand.organization)
        /\ LowerInside(Val(cand.organization), Val(r.organization))
     \/ Truthy(cand.url) /\ Val(cand.url) = Val(r.url)

\* C11 as worded: findDuplicateItem returns an id exactly when some stored
\* record satisfies tier 1 or tier 2, empty and missing candidate
\* properties included, and the id is of a record that satisfies a tier
C11_DuplicateIffTierWorded ==
  AskedDuplicate =>
    /\ (last.out # NoId) <=>
         \E i \in 1..Len(Listing) :
           Tier1(Listing[i], last.candidate) \/ Tier2Worded(Listing[i], last.candidate)
    /\ (last.out # NoId) =>
         \E i \in 1..Len(Listing) :
           /\ Listing[i].id = last.out
           /\ Tier1(Listing[i], last.candidate)
                \/ Tier2Worded(Listing[i], last.candidate)

\* C11: findDuplicateItem returns an id exactly when some record of the
\* listing satisfies tier 1 or tier 2, where an empty or missing candidate
\* name, organization or url matches nothing on tier 2; the id is of a
\* record of the listing that satisfies a tier; an unreadable listing is
\* empty, so the answer is then absent
C11_DuplicateIffTier ==
  AskedDuplicate =>
    /\ (last.out # NoId) <=>
         \E i \in 1..Len(Listing) :
           Tier1(Listing[i], last.candidate) \/ Tier2(Listing[i], last.candidate)
    /\ (last.out # NoId) =>
         \E i \in 1..Len(Listing) :
           /\ Listing[i].id = last.out
           /\ Tier1(Listing[i], last.candidate)
                \/ Tier2(Listing[i], last.candidate)
    /\ ~last.readOk => last.out = NoId

\* a candidate without an exact name match found by its name inside a stored
\* name and its organization inside the stored organization
C11_Witness ==
  /\ AskedDuplicate /\ last.readOk
  /\ last.out # NoId
  /\ \A i \in 1..Len(files) : ~Tier1(files[i], last.candidate)
  /\ \E i \in 1..Len(files) :
       files[i].id = last.out /\ Tier2(files[i], last.candidate)

Qualifies(r, cand) == Tier1(r, cand) \/ Tier2(r, cand)

\* C12 as worded: when records qualify, findDuplicateItem returns the first
\* record of the listing that satisfies either tier
C12_FirstOfEitherTier ==
  AskedDuplicate =>
    \A i \in 1..Len(Listing) :
      (/\ Qualifies(Listing[i], last.candidate)
       /\ \A j \in 1..(i - 1) : ~Qualifies(Listing[j], last.candidate))
        => last.out = Listing[i].id

\* C12: when records qualify, findDuplicateItem returns the first record of
\* the listing that satisfies tier 1 if any record does, and otherwise the
\* first record that satisfies tier 2
C12_FirstExactThenFirstSimilar ==
  AskedDuplicate =>
    \A i \in 1..Len(Listing) :
      /\ (/\ Tier1(Listing[i], last.candidate)
          /\ \A j \in 1..(i - 1) : ~Tier1(Listing[j], last.candidate))
           => last.out = Listing[i].id
      /\ (/\ \A j \in 1..Len(Listing) : ~Tier1(Listing[j], last.candidate)
          /\ Tier2(Listing[i], last.candidate)
          /\ \A j \in 1..(i - 1) : ~Tier2(Listing[j], last.candidate))
           => last.out = Listing[i].id

\* a record that only satisfies tier 2 listed before the record with the
\* candidate's name, and the latter returned
C12_Witness ==
  /\ AskedDuplicate /\ Len(Listing) >= 2
  /\ Tier2(Listing[1], last.candidate) /\ ~Tier1(Listing[1], last.candidate)
  /\ Tier1(Listing[2], last.candidate)
  /\ last.out = Listing[2].id

\* C13 as worded: asked with the exact name of a record r of the store,
\* findDuplicateItem returns the id of r, whatever else the store holds
C13_OwnNameOwnId ==
  AskedDuplicate =>
    \A r \in 1..Len(Listing) :
      Listing[r].name = last.candidate.name => last.out = Listing[r].id

\* C13: asked with the exact name of a record r of the listing,
\* findDuplicateItem returns the id of the first record of the listing whose
\* name equals r's name whatever the case: the id of r when no record listed
\* before r has that name
C13_OwnNameFirstOfName ==
  AskedDuplicate =>
    \A r \in 1..Len(Listing) :
      Listing[r].name = last.candidate.name =>
        \E k \in 1..r :
          /\ LowerEqual(Val(Listing[k].name), Val(Listing[r].name))
          /\ \A j \in 1..(k - 1) :
               ~LowerEqual(Val(Listing[j].name), Val(Listing[r].name))
          /\ last.out = Listing[k].id

\* the second record asked for by its exact name, the first one, whose name
\* differs only in case, returned
C13_Witness ==
  /\ AskedDuplicate /\ Len(Listing) >= 2
  /\ Listing[2].name = last.candidate.name
  /\ Listing[1].name # Listing[2].name
  /\ last.out = Listing[1].id

\* ----------------------------------------------- properties of the updates
\* C14 as worded: updateItem on an existing id persists and returns a
\* record: every web record of a merge for which findDuplicateItem returned
\* an id has been written, the stored record carrying an update stamp
C14_UpdateAlwaysPersists ==
  \A c \in AllCalls :
    \A k \in 1..Len(calls[c].merged) :
      calls[c].merged[k].dup # NoId
        => /\ calls[c].merged[k].updated
           /\ \E j \in 1..Len(files) :
                /\ files[j].id = calls[c].merged[k].dup
                /\ IsDefined(files[j].updatedAt)

\* C14: no step of a save or of a search removes a record or changes the id
\* or the createdAt of one; a stored record changes only by an updateItem
\* of a merge that returned a record, and then it carries the stored id and
\* createdAt, every other property of the web record (the source with the
\* updated mark), and updatedAt set to the clock, not before its previous
\* updatedAt; an updateItem whose read or write failed leaves the store alone
C14_UpdateKeepsIdentity ==
  [][/\ Len(files') >= Len(files)
     /\ \A i \in 1..Len(files) :
          \E j \in 1..Len(files') :
            /\ files'[j].id = files[i].id
            /\ files'[j].createdAt = files[i].createdAt
            /\ files'[j] # files[i] =>
                 /\ files'[j].updatedAt = Some(now)
                 /\ IsDefined(files[i].updatedAt)
                      => Val(files[i].updatedAt) <= now
                 /\ \E c \in AllCalls :
                      LET k == LastUpdate(calls'[c].merged, files[i].id)
                          w == calls'[c].web[k]
                      IN /\ calls[c].work = "web"
                         /\ \E k2 \in 1..Len(calls'[c].merged) :
                              /\ calls'[c].merged[k2].dup = files[i].id
                              /\ calls'[c].merged[k2].updated
                         /\ files'[j] =
                              [w EXCEPT !.id = files[i].id,
                                        !.createdAt = files[i].createdAt,
                                        !.updatedAt = Some(now),
                                        !.source = w.source \o <<UpdatedMark>>]
     /\ \A c \in AllCalls :
          (calls[c].work = "web" /\ calls'[c].work = "settled")
            => \A k \in 1..Len(calls'[c].merged) :
                 IF calls'[c].merged[k].updated
                   THEN \E j \in 1..Len(files') :
                          /\ files'[j].id = calls'[c].merged[k].dup
                          /\ files'[j].updatedAt = Some(now)
                   ELSE (\A k2 \in 1..Len(calls'[c].merged) :
                           ~calls'[c].merged[k2].updated) => files' = files]_vars

\* a record saved at time 0 and updated by a merge at time 1: the id and the
\* createdAt of the save, the fields of the web record, updatedAt 1
C14_Witness ==
  \E j \in 1..Len(files) :
    /\ files[j].id = <<"item", 0, 1, 0>>
    /\ files[j].createdAt = 0
    /\ files[j].updatedAt = Some(1)
    /\ files[j].organization = Str2("X", "F")

\* ------------------------------------------------ properties of the reads
\* the records of the store whose files can be read, in the listing order
Readable(bad) ==
  LET keep == {i \in 1..Len(files) : i \notin bad}
      Nth(n) == CHOOSE i \in keep :
                  Cardinality({j \in keep : j < i}) = n - 1
  IN [n \in 1..Cardinality(keep) |-> files[Nth(n)]]

\* C15: getAllItems over a store of which one file is unreadable returns
\* the records of all the readable files
C15_ListingSkipsUnreadable ==
  (last.op = "getAllItems" /\ Cardinality(last.bad) = 1)
    => last.out = Readable(last.bad)

\* C16: getItem returns null without an error for an id of no record, and
\* throws for an id whose record exists but cannot be read
C16_GetDistinguishesFailure ==
  last.op = "getItem" =>
    LET exists == \E i \in 1..Len(files) : files[i].id = last.id
    IN /\ ~exists => (~last.out.thrown /\ last.out.val = Null)
       /\ (exists /\ ~last.readOk) => last.out.thrown
       /\ (exists /\ last.readOk) =>
            (~last.out.thrown /\ last.out.val # Null
             /\ Val(last.out.val).id = last.id)

\* ------------------------------------------------ properties of the saves
SameFields(a, b) ==
  /\ a.name = b.name /\ a.organization = b.organization
  /\ a.url = b.url /\ a.category = b.category

\* C17: a save_item that succeeds adds exactly one record, under an id no
\* stored record has, with the fields of the request, the manual source
\* label and createdAt read from the clock; every record stored before is
\* still there unchanged, also one with the same fields; a save_item that
\* fails leaves the store as it was
C17_SaveAddsOneRecord ==
  [][(saves' = saves + 1 /\ last'.op = "save_item") =>
       IF last'.response.isError THEN files' = files
       ELSE LET new == last'.response.data
            IN /\ Len(files') = Len(files) + 1
               /\ \A i \in 1..Len(files) : files[i].id # new.id
               /\ \E pos \in 1..Len(files') :
                    /\ files'[pos] = new
                    /\ \A i \in 1..Len(files) :
                         files'[IF i < pos THEN i ELSE i + 1] = files[i]
               /\ SameFields(new, last'.input)
               /\ new.source = ManualSource
               /\ new.createdAt = now]_vars

\* the same fields saved twice: two records with different ids
C17_Witness ==
  /\ last.op = "save_item" /\ ~last.response.isError
  /\ \E i, j \in 1..Len(files) :
       /\ files[j] = last.response.data
       /\ files[i].id # files[j].id
       /\ SameFields(files[i], files[j])
       /\ files[i].source = ManualSource

\* ---------------------------------------------- properties of the summary
Summarised == last.op = "generate_markdown_summary" /\ last.handled

\* C18 as worded: for an empty record set the summary is exactly the fixed
\* message and the Generative source is not asked
C18_EmptyGivesFixedMessage ==
  (Summarised /\ last.items = <<>>)
    => /\ ~last.response.isError
       /\ last.response.data = NoInformationMessage
       /\ ~last.asked

\* C18: for an empty record set the summary is exactly the heading made of
\* the request's title, an empty line and the fixed message; it is not an
\* error and the Generative source is not asked, whatever it would answer
C18_EmptyGivesTitledMessage ==
  (Summarised /\ last.items = <<>>)
    => /\ ~last.response.isError
       /\ last.response.data =
            <<"#", " ">> \o Val(last.title) \o <<"\n", "\n">>
              \o NoInformationMessage
       /\ ~last.asked
       /\ last.status \in {0, 200}

\* a category that no stored record has, over a store that is not empty and
\* a Generative source that would fail
C18_Witness ==
  /\ Summarised /\ last.items = <<>>
  /\ Len(files) > 0 /\ last.bad = {}
  /\ Truthy(last.category)
  /\ last.outcome.kind = "throw"
  /\ ~last.response.isError

\* C19: when the Generative source fails for a record set that is not empty
\* the answer is an error: isError set, the error string present, and over
\* HTTP the status 500
C19_FailureReachesCaller ==
  (Summarised /\ last.items # <<>> /\ last.outcome.kind = "throw")
    => /\ last.asked
       /\ last.response.isError
       /\ last.response.error # <<>>
       /\ includes(last.response.error, last.outcome.message)
       /\ last.response.data = <<>>
       /\ last.transport = "http" => last.status = 500

\* an HTTP summary of stored records with a failing Generative source
C19_Witness ==
  /\ Summarised /\ last.items # <<>> /\ last.outcome.kind = "throw"
  /\ last.transport = "http" /\ last.status = 500

\* C20: get_items_by_category with an empty category returns the records
\* getAllItems returns, and with a filter exactly the records of the
\* readable files whose category holds the filter, case ignored
C20_CategoryListing ==
  last.op = "get_items_by_category" =>
    /\ ~last.response.isError
    /\ ~Truthy(last.category)
         => last.response.data = getAllItems(files, last.bad = {})
    /\ Truthy(last.category)
         => last.response.data =
              SelectSeq(Readable(last.bad),
                        LAMBDA r : LowerInside(Val(last.category),
                                               Val(r.category)))

\* ------------------------------------------- properties of the HTTP routes
HttpAnswered ==
  /\ last.op \in {"search_items", "save_item", "get_items_by_category",
                  "generate_markdown_summary"}
  /\ last.op = "generate_markdown_summary" => last.transport = "http"

\* the request of the last answer failed the route's validation
FailsValidation ==
  \/ last.op = "search_items" /\ ~Truthy(last.query)
  \/ last.op = "save_item" /\ ~itemSchemaValid(last.input)
  \/ last.op = "generate_markdown_summary" /\ ~Truthy(last.title)

StatusOfEnvelope(response) == IF response.isError THEN 500 ELSE 200

\* C21: over HTTP a request that fails validation (a falsy query, a falsy
\* title, a body that fails the schema) is answered 400 and the step that
\* answers it changes neither the store nor the counter nor any search call;
\* every other request is answered 500 exactly when its envelope has the
\* error flag set and 200 otherwise
C21_HttpStatus ==
  /\ [](HttpAnswered =>
          /\ last.handled <=> ~FailsValidation
          /\ ~last.handled => last.status = 400
          /\ last.handled => last.status = StatusOfEnvelope(last.response))
  /\ [](\A c \in AllCalls : calls[c].pc = "done" =>
          calls[c].status = StatusOfEnvelope(calls[c].response))
  /\ [][(last' # last /\ ~last'.handled) =>
          UNCHANGED <<activeSearchRequests, files, saves, calls>>]_vars

\* a saved item whose write failed is answered 500 after a search answered
\* 200
C21_Witness ==
  /\ last.op = "save_item" /\ last.handled
  /\ last.response.isError /\ last.status = 500
  /\ calls[1].pc = "done" /\ calls[1].status = 200

WebInProgress == {c \in AllCalls : calls[c].work = "web"}

\* C23: at any moment the number of search calls whose web-gathering step is
\* in progress is at most the admission ceiling, also after some calls have
\* ended by overall timeout or failure
C23_WebBoundedByCeiling ==
  Cardinality(WebInProgress) <= MAX_SIMULTANEOUS_SEARCHES

\* C24: once the overall deadline has fired for a call, the step in which
\* that call's web-gathering completes later changes neither the Record
\* Store nor the list returned to the caller
C24_DeadlineIsHardCeiling ==
  [][\A c \in AllCalls :
       (calls[c].ending = "timeout" /\ calls[c].work = "web"
          /\ calls'[c].work = "settled")
         => /\ files' = files
            /\ calls[c].pc = "done" => calls'[c].ret = calls[c].ret]_vars

\* ------------------------------------------- properties of concurrent merges
\* the properties of a record a caller supplies, the source label included
Payload(r) == <<r.name, r.organization, r.url, r.category, r.source>>

\* what updateItem stores for web item w over the stored record old
UpdateOf(old, w, time) ==
  [w EXCEPT !.id = old.id, !.createdAt = old.createdAt,
            !.updatedAt = Some(time), !.source = UpdatedSource(w)]

\* the step is the merge of call c: its searchFromWeb returns
MergeStepOf(c) == calls[c].work = "web" /\ calls'[c].work = "settled"

\* C25: when concurrent searches each merge a web record that matches the
\* same stored record, no second record is created; the store changes only
\* in a merge step, which holds findDuplicateItem and updateItem together;
\* after the merge step of a call whose update succeeded the stored record
\* is exactly the update by that call's web record, and otherwise it is
\* unchanged; so the stored record is at all times the original or the
\* whole update of one call's web record, never a mixture
C25_LastMergeWins ==
  /\ [](/\ Len(files) = 1
        /\ files[1].id = RaceStore[1].id
        /\ files[1].createdAt = RaceStore[1].createdAt
        /\ \/ files[1] = RaceStore[1]
           \/ \E c \in RaceCalls : \E k \in 1..Len(calls[c].web) :
                Payload(files[1]) =
                  Payload(UpdateOf(RaceStore[1], calls[c].web[k], 0)))
  /\ [][/\ files' # files => \E c \in RaceCalls : MergeStepOf(c)
        /\ \A c \in RaceCalls :
             MergeStepOf(c) =>
               IF \E k \in 1..Len(calls'[c].merged) : calls'[c].merged[k].updated
                 THEN LET k == LastUpdate(calls'[c].merged, files[1].id)
                      IN files'[1] = UpdateOf(files[1], calls'[c].web[k], now)
                 ELSE files' = files]_vars

\* both searches have merged a matching web record, of different case, and
\* the stored record carries the update of the first call, made after the
\* second call's
C25_Witness ==
  /\ calls[1].work = "settled" /\ calls[2].work = "settled"
  /\ Len(calls[1].merged) = 1 /\ calls[1].merged[1].updated
  /\ Len(calls[2].merged) = 1 /\ calls[2].merged[1].updated
  /\ calls[1].web[1].name # calls[2].web[1].name
  /\ files[1] = UpdateOf(RaceStore[1], calls[1].web[1], 1)
  /\ calls[2].web[1].createdAt = 0

\* ------------------------------------------- properties of the web-gathering
\* record r was returned by searchWebsiteWithSitemcp for the site
FromSite(r, website) ==
  r.id[1] \in {"site", "fallback"} /\ r.id[2] = website.name

\* the records the i-th enabled site of the last searchFromWeb returns by
\* itself
OwnRecords(i) ==
  searchWebsiteWithSitemcp(EnabledWebsites(last.websites)[i], last.envs[i],
                           now).result.val

\* C26: web-gathering never raises; a web-oriented call that fails or holds
\* no JSON contributes zero records and the sites are gathered all the same;
\* the result is the web-oriented records followed by records of enabled
\* sites, and the records of each enabled site in it are exactly what that
\* site returns by itself, whatever the other sites and the web-oriented
\* call do
C26_WebGatheringCollectsIndependently ==
  last.op = "searchFromWeb" =>
    LET enabledWebsites == EnabledWebsites(last.websites)
        res == last.result.val
    IN /\ ~last.result.thrown
       /\ last.outcome.kind \in {"throw", "nojson"} => last.direct.val = <<>>
       /\ SelectSeq(res, LAMBDA r : r.id[1] = "web") = last.direct.val
       /\ \A i \in 1..Len(enabledWebsites) :
            SelectSeq(res, LAMBDA r : FromSite(r, enabledWebsites[i]))
              = OwnRecords(i)
       /\ \A k \in 1..Len(res) :
            \/ res[k].id[1] = "web"
            \/ \E i \in 1..Len(enabledWebsites) :
                 FromSite(res[k], enabledWebsites[i])

\* the web-oriented call failed, the first site has no cache and returns
\* nothing, and the extracted record of the second site is returned
C26_Witness ==
  /\ last.op = "searchFromWeb"
  /\ last.outcome.kind = "throw"
  /\ last.websites = <<SiteA, SiteB>>
  /\ last.envs = <<EnvNoCache, EnvWithPages>>
  /\ Len(last.result.val) = 1
  /\ last.result.val[1].id = <<"site", SiteB.name, 1, 0>>

\* ------------------------------------------ properties of a search: no web
\* C27: a search with useWeb false never calls searchFromWeb nor the Site
\* Scraper, never runs the merge and so never asks the store for a duplicate
\* or writes it: no step of the call changes the store; when it completes
\* normally it returns the records of the Generative source's answer,
\* filtered by the category when one is given
C27_NoWebWithoutUseWeb ==
  /\ [](\A c \in AllCalls :
          ~calls[c].useWeb =>
            /\ calls[c].webCalls = 0 /\ calls[c].siteCalls = 0
            /\ calls[c].work # "web"
            /\ calls[c].web = <<>> /\ calls[c].merged = <<>>
            /\ calls[c].late = 0
            /\ calls[c].ending = "completed" =>
                 /\ ~calls[c].ret.thrown
                 /\ \A k \in 1..Len(calls[c].results) :
                      calls[c].results[k].source = GeminiSource
                 /\ calls[c].ret.val =
                      IF ~Truthy(calls[c].category) THEN calls[c].results
                      ELSE SelectSeq(calls[c].results,
                             LAMBDA it : LowerInside(Val(calls[c].category),
                                                     Val(it.category))))
  /\ [][\A c \in AllCalls :
          (~calls'[c].useWeb /\ calls'[c] # calls[c]) => files' = files]_vars

\* a search without useWeb and with a category completed: the Generative
\* source answered a record of another category, nothing is returned, and
\* the store holds a record
C27_Witness ==
  /\ ~calls[1].useWeb /\ calls[1].ending = "completed"
  /\ Truthy(calls[1].category)
  /\ Len(calls[1].results) = 1 /\ calls[1].ret.val = <<>>
  /\ Len(files) = 1

Scraped == last.op = "searchWebsiteWithSitemcp"

\* none of the possible cache directories exists when the call starts
NoExistingCache ==
  /\ ~IsDefined(last.env.home1) /\ ~IsDefined(last.env.home2)
  /\ ~IsDefined(last.env.alt)

\* C29: for a site none of whose cache directories exists,
\* searchWebsiteWithSitemcp runs the sitemcp sub-process once, raced against
\* SITEMCP_TIMEOUT, the sub-process killed when the timeout fires, before it
\* looks for cached pages
C29_SubprocessRunsWithoutCache ==
  (Scraped /\ NoExistingCache /\ last.env.mkdirOk)
    => /\ last.sitemcpRuns = 1
       /\ last.deadline = SITEMCP_TIMEOUT
       /\ last.env.sitemcp.kind = "timeout" => last.killed

\* the cached pages of the site of the last call: those of the first of its
\* cache directories that exists, none when none exists
CachedPages ==
  IF IsDefined(last.env.home1) THEN Val(last.env.home1)
  ELSE IF IsDefined(last.env.home2) THEN Val(last.env.home2)
  ELSE IF IsDefined(last.env.alt) THEN Val(last.env.alt)
  ELSE <<>>

\* mkdirSync is called and throws
MkdirThrows ==
  (~last.env.tmpExists \/ ~IsDefined(last.env.alt)) /\ ~last.env.mkdirOk

====
